---- MODULE Spec2Model ----
(***************************************************************************)
(* dir2md: a directory walker (DirectoryTree), a Markdown renderer         *)
(* (MarkdownGenerator), the command line driver (main), the generator of   *)
(* the viewer script (generate_gui_script) and the viewer's parser of the  *)
(* rendered block (DirectoryTreeViewer.parse_tree_lines).                  *)
(*                                                                         *)
(* Strings are sequences of one-character strings, so that startswith,     *)
(* replace, lstrip and the viewer's regular expressions are computed       *)
(* character by character.                                                 *)
(***************************************************************************)
EXTENDS Integers, Sequences, FiniteSets, TLC

VARIABLES fs, rootName, fault, opts, args, pc,
          dir_count, file_count, total_size, root_node,
          markdown, files, viewer

(* fs, rootName   the scanned directory: its entries and its own name      *)
(* fault          what the filesystem calls on each entry do in this run   *)
(* opts           the arguments of DirectoryTree                           *)
(* args           --name and -graph                                        *)
(* pc             "start", "tree" (generate_tree was called), "done" (main *)
(*                returned), "viewed" (the viewer script was run)          *)
(* dir_count, file_count, total_size   the counters of DirectoryTree       *)
(* root_node      the tree generate_tree returned last                     *)
(* markdown       the document generate_markdown returned                  *)
(* files          the output directory: file name -> content               *)
(* viewer         what the viewer shows                                    *)
vars == <<fs, rootName, fault, opts, args, pc,
          dir_count, file_count, total_size, root_node,
          markdown, files, viewer>>

(* Python's None where a node is expected. *)
None == [none |-> TRUE]

(* max_depth is None (no --depth given) or an integer: <<>> or <<d>>. *)
NoDepth == <<>>

------------------------------------------------------------------------------
(* Bounds of the model. *)

(* Number of entries below the root directory. *)
MaxEntries == 3

(* Largest --depth value tried (besides None and -1). *)
MaxDepthArg == 1

(* Number of entries whose filesystem calls fail during one run. *)
MaxFaults == 1

(* Number of entries below the root in the runs that vary --name. *)
MaxMainEntries == 1

------------------------------------------------------------------------------
(* Characters and strings. *)

Str_git == <<".", "g", "i", "t">>
Str_a_txt == <<"a", ".", "t", "x", "t">>
Str_b == <<"b">>
Str_c_txt == <<"c", ".", "t", "x", "t">>
Str_node_modules == <<"n", "o", "d", "e", "_", "m", "o", "d", "u", "l", "e", "s">>
Str_proj == <<"p", "r", "o", "j">>

(* Names of the files and of the directories below the scanned directory. *)
FileNames == {Str_a_txt, Str_c_txt}
DirNames == {Str_git, Str_b, Str_node_modules}

(* The same without the names the ignore predicate matches. *)
PlainFileNames == {Str_a_txt, Str_c_txt}
PlainDirNames == {Str_b}

(* Names the scanned directory itself may carry. *)
RootNames == {Str_proj, Str_node_modules}

(* File sizes in bytes. *)
FileSizes == {10, 2048}

(* Code points of the characters of the names, for Python's string order. *)
CharCode(c) ==
    CASE c = "." -> 46
      [] c = "_" -> 95
      [] c = "a" -> 97
      [] c = "b" -> 98
      [] c = "c" -> 99
      [] c = "d" -> 100
      [] c = "e" -> 101
      [] c = "g" -> 103
      [] c = "i" -> 105
      [] c = "j" -> 106
      [] c = "l" -> 108
      [] c = "m" -> 109
      [] c = "n" -> 110
      [] c = "o" -> 111
      [] c = "p" -> 112
      [] c = "r" -> 114
      [] c = "s" -> 115
      [] c = "t" -> 116
      [] c = "u" -> 117
      [] c = "x" -> 120
      [] OTHER -> 0

RECURSIVE StrLess(_, _)
(* s < t for Python strings. *)
StrLess(s, t) ==
    IF t = <<>> THEN FALSE
    ELSE IF s = <<>> THEN TRUE
    ELSE IF CharCode(Head(s)) # CharCode(Head(t))
         THEN CharCode(Head(s)) < CharCode(Head(t))
    ELSE StrLess(Tail(s), Tail(t))

------------------------------------------------------------------------------
(* The scanned directory.  fs is the sequence of the entries below the     *)
(* root, each [parent, name, isDir, size]; parent is the index of the      *)
(* directory holding the entry, 0 for the root.  Entries are numbered in   *)
(* path order, so one directory has one representation.                    *)

FileEntries(names) ==
    [name : names, isDir : {FALSE}, size : FileSizes]

DirEntries(names) ==
    [name : names, isDir : {TRUE}, size : {0}]

(* The entries a directory may hold: files named from fnames, directories *)
(* named from dnames.                                                     *)
Entries(fnames, dnames) == FileEntries(fnames) \cup DirEntries(dnames)

RECURSIVE EntryPath(_, _)
EntryPath(f, i) ==
    IF i = 0 THEN <<>> ELSE Append(EntryPath(f, f[i].parent), f[i].name)

RECURSIVE PathLess(_, _)
PathLess(p, q) ==
    IF q = <<>> THEN FALSE
    ELSE IF p = <<>> THEN TRUE
    ELSE IF Head(p) # Head(q) THEN StrLess(Head(p), Head(q))
    ELSE PathLess(Tail(p), Tail(q))

(* The directories of f an entry can be put in. *)
DirsOf(f) == {0} \cup {i \in 1..Len(f) : f[i].isDir}

ExtendFS(f, entries) ==
    {Append(f, [parent |-> d, name |-> e.name, isDir |-> e.isDir, size |-> e.size]) :
        <<d, e>> \in {x \in DirsOf(f) \X entries :
            Len(f) = 0 \/
            PathLess(EntryPath(f, Len(f)), Append(EntryPath(f, x[1]), x[2].name))}}

RECURSIVE FSOfSize(_, _)
FSOfSize(n, entries) ==
    IF n = 0 THEN {<<>>}
    ELSE UNION {ExtendFS(f, entries) : f \in FSOfSize(n - 1, entries)}

(* Every directory content with at most n entries, each one of entries. *)
FileSystems(n, entries) == UNION {FSOfSize(k, entries) : k \in 0..n}

(* What a filesystem call on an entry does in this run:                    *)
(*   ok         every call succeeds                                        *)
(*   list_fail  iterdir() of the directory raises OSError                  *)
(*   stat_fail  stat() of the file raises OSError, is_dir() answers False  *)
(*   kind_raise is_dir() raises PermissionError (pathlib propagates errors *)
(*              other than a missing path)                                 *)
(*   kind_false is_dir() of a directory answers False and stat() raises    *)
(*              (the path vanished, or is a broken link, when looked at)   *)
FaultKinds(f, i) ==
    IF i = 0 THEN {"ok", "list_fail"}
    ELSE IF f[i].isDir THEN {"ok", "list_fail", "kind_raise", "kind_false"}
    ELSE {"ok", "stat_fail", "kind_raise"}

FaultMaps(f, n) ==
    {m \in [0..Len(f) -> {"ok", "list_fail", "stat_fail", "kind_raise", "kind_false"}] :
        /\ \A i \in 0..Len(f) : m[i] \in FaultKinds(f, i)
        /\ Cardinality({i \in 0..Len(f) : m[i] # "ok"}) <= n}

------------------------------------------------------------------------------
(* DirectoryTree *)

DEFAULT_IGNORE_DIRS == {Str_git, Str_node_modules}

(* --depth: absent, or an integer. *)
DepthArgs == {NoDepth} \cup {<<d>> : d \in -1 .. MaxDepthArg}

Options ==
    [include_all : BOOLEAN, only_dirs : BOOLEAN, max_depth : DepthArgs,
     include_size : BOOLEAN]

(* main: ignore_dirs = set() if args.include_all else DEFAULT_IGNORE_DIRS *)
IgnoreDirs(o) == IF o.include_all THEN {} ELSE DEFAULT_IGNORE_DIRS

StartsWithDot(name) == Len(name) > 0 /\ name[1] = "."

(* Faulty variant of should_ignore: the ignore set is not consulted. *)
should_ignore_DotOnly(o, name) ==
    IF o.include_all THEN FALSE ELSE StartsWithDot(name)

should_ignore(o, name) ==
    IF o.include_all THEN FALSE
    ELSE name \in IgnoreDirs(o) \/ StartsWithDot(name)

TreeNode(name, is_dir, size, children) ==
    [name |-> name, is_dir |-> is_dir, size |-> size, children |-> children]

(* Indices of the entries of directory d. *)
ChildrenOf(f, d) == {i \in 1..Len(f) : f[i].parent = d}

RECURSIVE SortedNames(_, _)
(* sorted(path.iterdir()): the entries of one directory by name. *)
SortedNames(f, S) ==
    IF S = {} THEN <<>>
    ELSE LET m == CHOOSE i \in S : \A j \in S \ {i} : StrLess(f[i].name, f[j].name)
         IN <<m>> \o SortedNames(f, S \ {m})

(* path.is_dir() of entry p (0: the root): "dir", "file" or "raise". *)
IsDirLookup(f, flt, p) ==
    IF flt[p] = "kind_raise" THEN "raise"
    ELSE IF flt[p] \in {"kind_false", "stat_fail"} THEN "file"
    ELSE IF p = 0 \/ f[p].isDir THEN "dir"
    ELSE "file"

(* Faulty variants of DepthPruned: the limit itself pruned; one level    *)
(* more kept.                                                             *)
DepthPruned_AtLimit(o, depth) == o.max_depth # NoDepth /\ depth >= o.max_depth[1]

DepthPruned_OneDeeper(o, depth) == o.max_depth # NoDepth /\ depth > o.max_depth[1] + 1

(* The guard of build_tree's first return: the entry lies too deep. *)
DepthPruned(o, depth) == o.max_depth # NoDepth /\ depth > o.max_depth[1]

Counters(d, n, t) == [dir_count |-> d, file_count |-> n, total_size |-> t]

RECURSIVE build_tree(_, _, _, _, _, _, _)
RECURSIVE build_items(_, _, _, _, _, _, _, _)

(* The loop of build_tree over the sorted entries `todo` of one directory. *)
(* Answers [raised, items, st]: whether a call raised out of the loop, the *)
(* local list `items` at that point, and the counters.                      *)
build_items(f, flt, o, rname, todo, depth, items, st) ==
    IF todo = <<>> THEN [raised |-> FALSE, items |-> items, st |-> st]
    ELSE LET item == Head(todo) IN
         IF should_ignore(o, f[item].name)
         THEN build_items(f, flt, o, rname, Tail(todo), depth, items, st)
         ELSE LET r == build_tree(f, flt, o, rname, item, depth + 1, st) IN
              IF r.raised
              THEN [raised |-> TRUE, items |-> items, st |-> r.st]
              ELSE build_items(f, flt, o, rname, Tail(todo), depth,
                               IF r.node # None THEN Append(items, r.node) ELSE items,
                               r.st)

(* build_tree(path, depth) with the counters st on entry.  Answers         *)
(* [raised, node, st]: node is None where the code returns None.           *)
build_tree(f, flt, o, rname, p, depth, st) ==
    IF DepthPruned(o, depth)
    THEN [raised |-> FALSE, node |-> None, st |-> st]
    ELSE
    LET name == IF p = 0 THEN rname ELSE f[p].name
        isdir == IsDirLookup(f, flt, p)
    IN
    IF isdir = "raise" THEN [raised |-> TRUE, node |-> None, st |-> st]
    ELSE IF isdir = "dir"
    THEN LET st1 == [st EXCEPT !.dir_count = @ + 1] IN
         IF flt[p] = "list_fail"
         THEN [raised |-> FALSE, node |-> TreeNode(name, TRUE, 0, <<>>), st |-> st1]
         ELSE LET r == build_items(f, flt, o, rname, SortedNames(f, ChildrenOf(f, p)),
                                   depth, <<>>, st1)
              IN [raised |-> FALSE,
                  node |-> TreeNode(name, TRUE, 0,
                                    IF r.raised THEN <<>> ELSE r.items),
                  st |-> r.st]
    ELSE IF ~o.only_dirs
    THEN LET size == IF flt[p] = "ok" THEN f[p].size ELSE 0 IN
         [raised |-> FALSE, node |-> TreeNode(name, FALSE, size, <<>>),
          st |-> [st EXCEPT !.file_count = @ + 1, !.total_size = @ + size]]
    ELSE [raised |-> FALSE, node |-> None, st |-> st]

(* generate_tree(): the counters are reset, then the root is built. *)
generate_tree(f, flt, o, rname) ==
    build_tree(f, flt, o, rname, 0, 0, Counters(0, 0, 0))


------------------------------------------------------------------------------
(* Glyphs of the rendered tree, each one character of a line. *)

SP == " "
(* U+2502, the vertical bar of an ancestry prefix *)
BAR == "<bar>"
(* U+251C, U+2514 and U+2500: the connectors are TEE DASH DASH SP and      *)
(* ELL DASH DASH SP                                                        *)
TEE == "<tee>"
ELL == "<ell>"
DASH == "<dash>"
(* the folder and the page emoji *)
FOLDER == "<folder>"
PAGE == "<page>"

Whitespace == {SP}

Digits == <<"0", "1", "2", "3", "4", "5", "6", "7", "8", "9">>

RECURSIVE DecStr(_)
(* str(n) of a natural number *)
DecStr(n) ==
    IF n < 10 THEN <<Digits[n + 1]>>
    ELSE Append(DecStr(n \div 10), Digits[(n % 10) + 1])

(* Faulty variant of Fixed2: the hundredths are cut off, not rounded. *)
Fixed2_Truncated(n, d) ==
    LET h == (n * 100) \div d
    IN DecStr(h \div 100) \o <<".", Digits[((h % 100) \div 10) + 1], Digits[(h % 10) + 1]>>

(* f"{n/d:.2f}": n/d is exact in a float for d a power of 1024, and the    *)
(* format rounds it to hundredths, ties to even.                           *)
Fixed2(n, d) ==
    LET q == (n * 100) \div d
        r == (n * 100) % d
        h == IF 2 * r > d THEN q + 1
             ELSE IF 2 * r = d THEN q + (q % 2)
             ELSE q
    IN DecStr(h \div 100) \o <<".", Digits[((h % 100) \div 10) + 1], Digits[(h % 10) + 1]>>

SizeUnits == << <<"B">>, <<"K", "B">>, <<"M", "B">>, <<"G", "B">>, <<"T", "B">> >>

RECURSIVE format_size_loop(_, _, _)
(* The loop of format_size; the float `size` is n/d. *)
format_size_loop(n, d, units) ==
    IF units = <<>> THEN Fixed2(n, d) \o <<SP, "P", "B">>
    ELSE IF n < 1024 * d THEN Fixed2(n, d) \o <<SP>> \o Head(units)
    ELSE format_size_loop(n, d * 1024, Tail(units))

format_size(size) == format_size_loop(size, 1, SizeUnits)

------------------------------------------------------------------------------
(* MarkdownGenerator.  A line is kept without its final newline. *)

RECURSIVE tree_to_lines(_, _, _, _, _)
RECURSIVE children_to_lines(_, _, _, _, _)

(* The loop of tree_to_lines over node.children from index i on. *)
children_to_lines(o, rname, children, i, child_prefix) ==
    IF i > Len(children) THEN <<>>
    ELSE tree_to_lines(o, rname, children[i], child_prefix, i = Len(children))
         \o children_to_lines(o, rname, children, i + 1, child_prefix)

tree_to_lines(o, rname, node, prefix, is_last) ==
    LET connector == IF is_last THEN <<ELL, DASH, DASH, SP>> ELSE <<TEE, DASH, DASH, SP>>
        marker == IF node.is_dir THEN FOLDER ELSE PAGE
        size_str == IF o.include_size /\ ~node.is_dir
                    THEN <<SP, "(">> \o format_size(node.size) \o <<")">>
                    ELSE <<>>
        own == IF node.name # rname
               THEN << prefix \o connector \o <<marker, SP>> \o node.name \o size_str >>
               ELSE <<>>
        child_prefix == IF node.name = rname THEN prefix
                        ELSE prefix \o (IF is_last THEN <<SP, SP, SP, SP>>
                                        ELSE <<BAR, SP, SP, SP>>)
    IN own \o (IF node.is_dir /\ node.children # <<>>
               THEN children_to_lines(o, rname, node.children, 1, child_prefix)
               ELSE <<>>)

RootLine(root, rname) ==
    <<IF root.is_dir THEN FOLDER ELSE PAGE, SP>> \o rname \o <<"/">>

(* The summary section: the lines that are printed, each a label and the  *)
(* printed value.                                                         *)
Summary(o, st) ==
    <<[label |-> "dirs", value |-> DecStr(st.dir_count)]>>
    \o (IF ~o.only_dirs
        THEN <<[label |-> "files", value |-> DecStr(st.file_count)]>>
             \o (IF o.include_size
                 THEN <<[label |-> "total", value |-> format_size(st.total_size)]>>
                 ELSE <<>>)
        ELSE <<>>)

Placeholder == [kind |-> "placeholder"]

(* The document generate_markdown returns for the result r of            *)
(* generate_tree: the placeholder, or the title, the lines of the fenced  *)
(* block and the summary.                                                 *)
MarkdownOf(o, rname, r) ==
    IF r.node = None THEN Placeholder
    ELSE [kind |-> "tree",
          title |-> rname,
          block |-> <<RootLine(r.node, rname)>>
                    \o children_to_lines(o, rname, r.node.children, 1, <<>>),
          summary |-> Summary(o, r.st)]

------------------------------------------------------------------------------
(* The generated viewer: DirectoryTreeViewer.parse_tree_lines. *)

RECURSIVE lstrip(_)
lstrip(line) ==
    IF line # <<>> /\ Head(line) \in Whitespace THEN lstrip(Tail(line)) ELSE line

RECURSIVE rstrip(_)
rstrip(line) ==
    IF line # <<>> /\ line[Len(line)] \in Whitespace
    THEN rstrip(SubSeq(line, 1, Len(line) - 1)) ELSE line

strip(line) == rstrip(lstrip(line))

NoMatch == [matched |-> FALSE]

(* re.match(r'<folder>\s+(.+?)/?$', root_line): the name, lazily, so one  *)
(* final slash is left out of it.                                         *)
RootMatch(root_line) ==
    IF root_line = <<>> \/ Head(root_line) # FOLDER THEN NoMatch
    ELSE LET after == Tail(root_line)
             rest == lstrip(after)
         IN IF rest = after \/ rest = <<>> THEN NoMatch
            ELSE [matched |-> TRUE,
                  name |-> IF Len(rest) >= 2 /\ rest[Len(rest)] = "/"
                           THEN SubSeq(rest, 1, Len(rest) - 1) ELSE rest]

(* (?:\s+\(([^)]+)\))?$ tried as the group at the start of t: whitespace, *)
(* an opening parenthesis, characters other than the closing one, the     *)
(* closing one, the end.                                                  *)
SizeGroup(t) ==
    LET u == lstrip(t) IN
    IF u = t \/ Len(u) < 3 \/ Head(u) # "(" \/ u[Len(u)] # ")" THEN NoMatch
    ELSE LET inner == SubSeq(u, 2, Len(u) - 1) IN
         IF \E i \in 1..Len(inner) : inner[i] = ")" THEN NoMatch
         ELSE [matched |-> TRUE, size |-> inner]

RECURSIVE NameAndSize(_, _)
(* (.+?)(?:\s+\(([^)]+)\))?$ on r: the shortest name of k or more         *)
(* characters after which the size group, or the end, matches.            *)
NameAndSize(r, k) ==
    IF k > Len(r) THEN NoMatch
    ELSE LET g == SizeGroup(SubSeq(r, k + 1, Len(r))) IN
         IF g.matched
         THEN [matched |-> TRUE, name |-> SubSeq(r, 1, k), size |-> g.size]
         ELSE IF k = Len(r)
         THEN [matched |-> TRUE, name |-> r, size |-> <<>>]
         ELSE NameAndSize(r, k + 1)

(* re.match(r'([<tee><ell>]<dash><dash>\s+)?([<folder><page>])\s+(.+?)     *)
(*            (?:\s+\(([^)]+)\))?$', stripped)                            *)
ContentMatch(stripped) ==
    LET hasConn == /\ Len(stripped) >= 4
                   /\ stripped[1] \in {TEE, ELL}
                   /\ stripped[2] = DASH /\ stripped[3] = DASH
                   /\ stripped[4] \in Whitespace
        afterConn == IF hasConn THEN lstrip(SubSeq(stripped, 4, Len(stripped)))
                     ELSE stripped
    IN IF afterConn = <<>> \/ Head(afterConn) \notin {FOLDER, PAGE} THEN NoMatch
       ELSE LET after == Tail(afterConn)
                rest == lstrip(after)
            IN IF rest = after THEN NoMatch
               ELSE LET m == NameAndSize(rest, 1) IN
                    IF ~m.matched THEN NoMatch
                    ELSE [matched |-> TRUE, is_dir |-> Head(afterConn) = FOLDER,
                          name |-> m.name, size |-> m.size]

RECURSIVE PopStack(_, _)
(* while len(stack) > 1 and stack[-1][1] >= level: stack.pop() *)
PopStack(stack, level) ==
    IF Len(stack) > 1 /\ stack[Len(stack)].level >= level
    THEN PopStack(SubSeq(stack, 1, Len(stack) - 1), level)
    ELSE stack

RECURSIVE parse_loop(_, _, _, _)
(* The loop of parse_tree_lines over lines[i..].  nodes holds the nodes   *)
(* made so far, each with the index of its parent (0 for the root node,   *)
(* which is nodes[1]); stack holds (node index, level) pairs.             *)
parse_loop(lines, i, nodes, stack) ==
    IF i > Len(lines) THEN nodes
    ELSE LET line == lines[i]
             stripped == lstrip(line)
             leading_chars == Len(line) - Len(stripped)
             m == ContentMatch(stripped)
         IN IF strip(line) = <<>> \/ ~m.matched
            THEN parse_loop(lines, i + 1, nodes, stack)
            ELSE LET level == leading_chars \div 4
                     st == PopStack(stack, level)
                     node == [name |-> m.name, is_dir |-> m.is_dir, size |-> m.size,
                              parent |-> st[Len(st)].node]
                     nodes2 == Append(nodes, node)
                 IN parse_loop(lines, i + 1, nodes2,
                               IF m.is_dir
                               THEN Append(st, [node |-> Len(nodes2), level |-> level])
                               ELSE st)

RECURSIVE ViewerNode(_, _)
RECURSIVE ViewerChildren(_, _, _)
(* The viewer's TreeNode number i with its children, in the order they    *)
(* were appended.                                                         *)
ViewerChildren(nodes, i, j) ==
    IF j > Len(nodes) THEN <<>>
    ELSE (IF nodes[j].parent = i THEN <<ViewerNode(nodes, j)>> ELSE <<>>)
         \o ViewerChildren(nodes, i, j + 1)

ViewerNode(nodes, i) ==
    TreeNode(nodes[i].name, nodes[i].is_dir, nodes[i].size,
             ViewerChildren(nodes, i, i + 1))

(* parse_tree_lines(lines): None, or the root node of the rebuilt tree. *)
parse_tree_lines(lines) ==
    IF lines = <<>> THEN None
    ELSE LET rm == RootMatch(strip(lines[1])) IN
         IF ~rm.matched THEN None
         ELSE ViewerNode(
                parse_loop(lines, 2,
                           <<[name |-> rm.name, is_dir |-> TRUE, size |-> <<>>,
                              parent |-> 0]>>,
                           <<[node |-> 1, level |-> -1]>>),
                1)

(* tree_content.strip().split("\n") of the block between the fences. *)
BlockLines(block) ==
    [i \in 1..Len(block) |->
        LET a == IF i = 1 THEN lstrip(block[i]) ELSE block[i]
        IN IF i = Len(block) THEN rstrip(a) ELSE a]

(* load_directory_tree with the content of the file named by md_filename, *)
(* or with no such file.                                                  *)
load_directory_tree(present, content) ==
    IF ~present THEN [status |-> "no_file"]
    ELSE IF content.kind # "tree" THEN [status |-> "no_block"]
    ELSE LET root == parse_tree_lines(BlockLines(content.block)) IN
         IF root = None THEN [status |-> "no_root"]
         ELSE [status |-> "shown", tree |-> root]

------------------------------------------------------------------------------
(* generate_gui_script and main *)

Str_structure_md == <<"s", "t", "r", "u", "c", "t", "u", "r", "e", ".", "m", "d">>
Str_tree_txt == <<"t", "r", "e", "e", ".", "t", "x", "t">>
Str_a_md_md == <<"a", ".", "m", "d", ".", "m", "d">>
Str_TREE == <<"T", "R", "E", "E">>

(* Values of --name; the first is its default. *)
OutputNames == {Str_structure_md, Str_tree_txt, Str_a_md_md, Str_TREE}

StartsWith(s, pre) ==
    Len(s) >= Len(pre) /\ SubSeq(s, 1, Len(pre)) = pre

RECURSIVE Replace(_, _, _)
(* s.replace(old, new), old not empty *)
Replace(s, old, new) ==
    IF s = <<>> THEN <<>>
    ELSE IF StartsWith(s, old)
    THEN new \o Replace(SubSeq(s, Len(old) + 1, Len(s)), old, new)
    ELSE <<Head(s)>> \o Replace(Tail(s), old, new)

(* script_name = md_filename.replace('.md', '.py') *)
ScriptName(md_filename) ==
    Replace(md_filename, <<".", "m", "d">>, <<".", "p", "y">>)

(* open(path, 'w').write(content) in the output directory *)
WriteFile(fls, name, content) ==
    [n \in DOMAIN fls \cup {name} |-> IF n = name THEN content ELSE fls[n]]

(* The viewer program, which embeds the name of the document it reads. *)
GuiCode(md_filename) == [kind |-> "script", md_filename |-> md_filename]

generate_gui_script(fls, md_filename) ==
    WriteFile(fls, ScriptName(md_filename), GuiCode(md_filename))

NoFiles == [n \in {} |-> None]

------------------------------------------------------------------------------
(* The state machine. *)

TypeOK ==
    /\ pc \in {"start", "tree", "done", "viewed"}
    /\ dir_count \in Nat /\ file_count \in Nat /\ total_size \in Nat

InitWith(fsSet, rootNames, maxFaults, optSet, argSet) ==
    /\ fs \in fsSet
    /\ rootName \in rootNames
    /\ fault \in FaultMaps(fs, maxFaults)
    /\ opts \in optSet
    /\ args \in argSet
    /\ pc = "start"
    /\ dir_count = 0 /\ file_count = 0 /\ total_size = 0
    /\ root_node = None
    /\ markdown = [kind |-> "none"]
    /\ files = NoFiles
    /\ viewer = [status |-> "not_run"]

DefaultArgs == [output_name : {Str_structure_md}, generate_gui : {TRUE}]

(* Runs without filesystem errors, over every name. *)
Init ==
    InitWith(FileSystems(MaxEntries, Entries(FileNames, DirNames)), RootNames, 0,
             Options, DefaultArgs)

(* Runs in which filesystem calls fail, over the names the ignore         *)
(* predicate does not match.                                              *)
FaultOptions ==
    [include_all : {FALSE}, only_dirs : BOOLEAN, max_depth : DepthArgs,
     include_size : {FALSE}]

InitFault ==
    InitWith(FileSystems(MaxEntries, Entries(PlainFileNames, PlainDirNames)),
             {Str_proj}, MaxFaults, FaultOptions, DefaultArgs)

(* Runs of main over the values of --name and -graph. *)
MainArgs == [output_name : OutputNames, generate_gui : BOOLEAN]

InitMain ==
    InitWith(FileSystems(MaxMainEntries, Entries(PlainFileNames, PlainDirNames)),
             {Str_proj}, 0, Options, MainArgs)

(* tree_generator.generate_tree(), called on its own *)
GenerateTree ==
    /\ pc = "start"
    /\ LET r == generate_tree(fs, fault, opts, rootName) IN
       /\ ~r.raised
       /\ root_node' = r.node
       /\ dir_count' = r.st.dir_count
       /\ file_count' = r.st.file_count
       /\ total_size' = r.st.total_size
    /\ pc' = "tree"
    /\ UNCHANGED <<fs, rootName, fault, opts, args, markdown, files, viewer>>

(* main(): a DirectoryTree is made from the arguments, then              *)
(* generate_markdown(), the document written, and the viewer script       *)
(* written when -graph is given.                                          *)
Main ==
    /\ pc = "start"
    /\ LET r == generate_tree(fs, fault, opts, rootName)
           md == MarkdownOf(opts, rootName, r)
           written == WriteFile(files, args.output_name, md)
       IN
       /\ ~r.raised
       /\ root_node' = r.node
       /\ dir_count' = r.st.dir_count
       /\ file_count' = r.st.file_count
       /\ total_size' = r.st.total_size
       /\ markdown' = md
       /\ files' = IF args.generate_gui
                   THEN generate_gui_script(written, args.output_name)
                   ELSE written
    /\ pc' = "done"
    /\ UNCHANGED <<fs, rootName, fault, opts, args, viewer>>

(* The generated script is run: DirectoryTreeViewer.load_directory_tree   *)
(* reads the file its template names, beside the script.                  *)
RunViewer ==
    /\ pc = "done"
    /\ \E n \in DOMAIN files :
         /\ files[n].kind = "script"
         /\ LET md == files[n].md_filename IN
            viewer' = load_directory_tree(md \in DOMAIN files,
                                          IF md \in DOMAIN files THEN files[md]
                                          ELSE None)
    /\ pc' = "viewed"
    /\ UNCHANGED <<fs, rootName, fault, opts, args, dir_count, file_count,
                   total_size, root_node, markdown, files>>

Next == GenerateTree \/ Main \/ RunViewer

Spec == Init /\ [][Next]_vars

FaultSpec == InitFault /\ [][Next]_vars

MainSpec == InitMain /\ [][Next]_vars

------------------------------------------------------------------------------
(* Reading a built tree. *)

RECURSIVE Flatten(_, _)
RECURSIVE FlattenAll(_, _, _)
(* The nodes of a tree in depth-first order, each with its depth. *)
FlattenAll(children, i, d) ==
    IF i > Len(children) THEN <<>>
    ELSE Flatten(children[i], d) \o FlattenAll(children, i + 1, d)

Flatten(node, d) ==
    <<[name |-> node.name, is_dir |-> node.is_dir, size |-> node.size, depth |-> d]>>
    \o FlattenAll(node.children, 1, d + 1)

NodesOf(node) == IF node = None THEN <<>> ELSE Flatten(node, 0)

RECURSIVE SumSizes(_)
SumSizes(ns) == IF ns = <<>> THEN 0 ELSE Head(ns).size + SumSizes(Tail(ns))

DirNodes(ns) == {i \in 1..Len(ns) : ns[i].is_dir}
FileNodes(ns) == {i \in 1..Len(ns) : ~ns[i].is_dir}

RECURSIVE Shape(_)
(* A tree without its sizes: names, kinds, nesting and sibling order. *)
Shape(node) ==
    [name |-> node.name, is_dir |-> node.is_dir,
     children |-> [i \in 1..Len(node.children) |-> Shape(node.children[i])]]

(* Depth of entry i of fs: 1 for an entry of the root. *)
RECURSIVE DepthOf(_, _)
DepthOf(f, i) == IF i = 0 THEN 0 ELSE 1 + DepthOf(f, f[i].parent)

RECURSIVE Ancestors(_, _)
(* Entry i and the entries above it, below the root. *)
Ancestors(f, i) == IF i = 0 THEN {} ELSE {i} \cup Ancestors(f, f[i].parent)

WithinDepth(o, d) == o.max_depth = NoDepth \/ d <= o.max_depth[1]

NoFaults == \A i \in DOMAIN fault : fault[i] = "ok"

------------------------------------------------------------------------------
(* What the claims speak of. *)

(* The ignore predicate as the specification words it: a name of the      *)
(* ignore set, or a name starting with a dot, unless include-all is set.  *)
IgnoreMatches(o, name) ==
    ~o.include_all /\ (name \in DEFAULT_IGNORE_DIRS \/ name[1] = ".")

(* Entry i is accepted: neither it nor an ancestor below the root is      *)
(* matched by the ignore predicate, it is not deeper than maxDepth, and   *)
(* it is a directory or onlyDirectories is not set.                       *)
Accepted(i) ==
    /\ \A a \in Ancestors(fs, i) : ~IgnoreMatches(opts, fs[a].name)
    /\ WithinDepth(opts, DepthOf(fs, i))
    /\ (fs[i].isDir \/ ~opts.only_dirs)

AcceptedDirs == {i \in 1..Len(fs) : Accepted(i) /\ fs[i].isDir}
AcceptedFiles == {i \in 1..Len(fs) : Accepted(i) /\ ~fs[i].isDir}

(* C1 as stated: after generate_tree without filesystem errors,           *)
(* directoryCount and fileCount are the numbers of accepted directory     *)
(* and file entries.                                                      *)
C1_CountsOfEntries ==
    (pc # "start" /\ NoFaults) =>
        /\ dir_count = Cardinality(AcceptedDirs)
        /\ file_count = Cardinality(AcceptedFiles)

(* C1 amended: after generate_tree without filesystem errors, fileCount   *)
(* is the number of accepted file entries and directoryCount is the       *)
(* number of accepted directory entries plus one for the root directory   *)
(* itself, which is counted whenever maxDepth is absent or at least 0.    *)
C1_CountsWithRoot ==
    (pc # "start" /\ NoFaults) =>
        /\ dir_count = Cardinality(AcceptedDirs)
                       + (IF WithinDepth(opts, 0) THEN 1 ELSE 0)
        /\ file_count = Cardinality(AcceptedFiles)

(* A run that ignored an entry, pruned another by depth and counted a     *)
(* directory and a file below the root.                                   *)
C1_Witness ==
    /\ pc = "tree" /\ NoFaults
    /\ \E i \in 1..Len(fs) : IgnoreMatches(opts, fs[i].name)
    /\ \E i \in 1..Len(fs) : ~WithinDepth(opts, DepthOf(fs, i))
    /\ dir_count = 2

(* The entries of f not deeper than d, renumbered, and their faults. *)
KeptEntries(f, d) == {i \in 1..Len(f) : DepthOf(f, i) <= d}

NewIndex(f, d, i) == Cardinality({j \in KeptEntries(f, d) : j <= i})

OldIndex(f, d, k) ==
    IF k = 0 THEN 0 ELSE CHOOSE i \in KeptEntries(f, d) : NewIndex(f, d, i) = k

TruncateFS(f, d) ==
    [k \in 1..Cardinality(KeptEntries(f, d)) |->
        [f[OldIndex(f, d, k)] EXCEPT !.parent = NewIndex(f, d, @)]]

TruncateFaults(f, flt, d) ==
    [k \in 0..Cardinality(KeptEntries(f, d)) |-> flt[OldIndex(f, d, k)]]

(* C4: with maxDepth d, no node of the returned tree is deeper than d,    *)
(* and the three counters are those of a run without depth limit over the *)
(* directory with every entry deeper than d removed (those entries add    *)
(* nothing); with maxDepth 0 the tree is the root alone and the rendered  *)
(* block is the root line alone.                                          *)
C4_DepthLimit ==
    (pc # "start" /\ opts.max_depth # NoDepth) =>
        LET d == opts.max_depth[1]
            ns == NodesOf(root_node)
            cut == generate_tree(TruncateFS(fs, d), TruncateFaults(fs, fault, d),
                                 [opts EXCEPT !.max_depth = NoDepth], rootName)
        IN /\ \A k \in 1..Len(ns) : ns[k].depth <= d
           /\ d >= 0 => /\ dir_count = cut.st.dir_count
                        /\ file_count = cut.st.file_count
                        /\ total_size = cut.st.total_size
           /\ d < 0 => dir_count = 0 /\ file_count = 0 /\ total_size = 0
           /\ d = 0 => /\ Len(ns) = 1
                       /\ pc \in {"done", "viewed"} =>
                            markdown.block = << <<FOLDER, SP>> \o rootName \o <<"/">> >>

(* maxDepth 0 on a root with a file in a subdirectory, nothing ignored.   *)
C4_Witness ==
    /\ pc = "done" /\ opts.max_depth = <<0>> /\ opts.include_all
    /\ \E i \in 1..Len(fs) : fs[i].parent # 0 /\ ~fs[i].isDir
    /\ dir_count = 1 /\ file_count = 0 /\ total_size = 0

(* C9 as stated: after every generate_tree call, filesystem failures      *)
(* included, directoryCount is the number of directory nodes of the       *)
(* returned tree, fileCount the number of its file nodes and              *)
(* totalSizeBytes the sum of the sizes of its file nodes.                 *)
C9_CountersMatchTree ==
    pc # "start" =>
        LET ns == NodesOf(root_node) IN
        /\ dir_count = Cardinality(DirNodes(ns))
        /\ file_count = Cardinality(FileNodes(ns))
        /\ total_size = SumSizes(ns)

RECURSIVE NodeAtPath(_, _)
(* The node reached from `node` by the names of `path`, or None. *)
NodeAtPath(node, path) ==
    IF node = None \/ path = <<>> THEN node
    ELSE IF \E i \in 1..Len(node.children) : node.children[i].name = Head(path)
    THEN NodeAtPath(node.children[CHOOSE i \in 1..Len(node.children) :
                                      node.children[i].name = Head(path)],
                    Tail(path))
    ELSE None

ChildNames(node) == [i \in 1..Len(node.children) |-> node.children[i].name]

(* Entry x is looked at by the traversal when nothing else fails: it is   *)
(* not too deep and neither it nor an ancestor is ignored.                *)
Visited(x) ==
    /\ WithinDepth(opts, DepthOf(fs, x))
    /\ \A a \in Ancestors(fs, x) : ~IgnoreMatches(opts, fs[a].name)

(* The names of the child nodes collected in x's directory before x is    *)
(* built: the accepted entries sorted before x.                           *)
CollectedBefore(x) ==
    LET before == {s \in ChildrenOf(fs, fs[x].parent) :
                      /\ StrLess(fs[s].name, fs[x].name)
                      /\ ~IgnoreMatches(opts, fs[s].name)
                      /\ (fs[s].isDir \/ ~opts.only_dirs)}
        order == SortedNames(fs, before)
    IN [k \in 1..Len(order) |-> fs[order[k]].name]

OnlyFault(x) == \A i \in DOMAIN fault : i # x => fault[i] = "ok"

(* C6 as stated, for a run with one failure: when building an entry x of  *)
(* a directory raises, or when listing a directory x raises, generate_tree *)
(* still returns, the directory's node is in the tree, and its children   *)
(* are the child nodes collected before the failure.                      *)
C6_PartialChildrenKept ==
    pc # "start" =>
        \A x \in DOMAIN fault :
            /\ (x # 0 /\ fault[x] = "kind_raise" /\ OnlyFault(x) /\ Visited(x)) =>
                  LET dirNode == NodeAtPath(root_node, EntryPath(fs, fs[x].parent)) IN
                  /\ dirNode # None
                  /\ ChildNames(dirNode) = CollectedBefore(x)
            /\ (fault[x] = "list_fail" /\ OnlyFault(x) /\ (x = 0 \/ Visited(x))
                /\ WithinDepth(opts, 0)) =>
                  LET dirNode == NodeAtPath(root_node, EntryPath(fs, x)) IN
                  /\ dirNode # None
                  /\ dirNode.children = <<>>

(* C3 as stated: when the root directory has no entries, or its listing   *)
(* fails, generate_markdown returns the placeholder document.             *)
C3_EmptyRootPlaceholder ==
    (pc \in {"done", "viewed"} /\ (ChildrenOf(fs, 0) = {} \/ fault[0] = "list_fail")) =>
        markdown = Placeholder

Contains(line, sub) ==
    \E i \in 1..(Len(line) - Len(sub) + 1) : SubSeq(line, i, i + Len(sub) - 1) = sub

AllNames == FileNames \cup DirNames \cup RootNames

(* With include-all, no entry is left out for its name: every entry that  *)
(* is not too deep (and, with onlyDirectories, is a directory) has its    *)
(* node in the tree.                                                      *)
NothingExcludedByName ==
    \A i \in 1..Len(fs) :
        (WithinDepth(opts, DepthOf(fs, i)) /\ (fs[i].isDir \/ ~opts.only_dirs)) =>
            NodeAtPath(root_node, EntryPath(fs, i)) # None

(* C5 as stated: without include-all no node of the tree has a name the   *)
(* ignore predicate matches and no such name appears in the rendered      *)
(* document; with include-all no entry is excluded by name.               *)
C5_NoIgnoredNode ==
    (pc \in {"done", "viewed"} /\ NoFaults /\ root_node # None) =>
        LET ns == NodesOf(root_node) IN
        /\ ~opts.include_all =>
              /\ \A k \in 1..Len(ns) : ~IgnoreMatches(opts, ns[k].name)
              /\ \A k \in 1..Len(markdown.block) : \A nm \in AllNames :
                    IgnoreMatches(opts, nm) => ~Contains(markdown.block[k], nm)
        /\ opts.include_all => NothingExcludedByName

(* C5 amended: without include-all no node of the tree other than the     *)
(* root has a name the ignore predicate matches and no line of the block  *)
(* after the root line holds such a name (the root directory is never     *)
(* tested against the ignore predicate); with include-all no entry is     *)
(* excluded by name.                                                      *)
C5_NoIgnoredNodeBelowRoot ==
    (pc \in {"done", "viewed"} /\ NoFaults /\ root_node # None) =>
        LET ns == NodesOf(root_node) IN
        /\ ~opts.include_all =>
              /\ \A k \in 2..Len(ns) : ~IgnoreMatches(opts, ns[k].name)
              /\ \A k \in 2..Len(markdown.block) : \A nm \in AllNames :
                    IgnoreMatches(opts, nm) => ~Contains(markdown.block[k], nm)
        /\ opts.include_all => NothingExcludedByName

(* .git and node_modules at the root beside a directory that is kept. *)
C5_Witness ==
    /\ pc = "done" /\ ~opts.include_all /\ opts.max_depth = NoDepth
    /\ \E i \in 1..Len(fs) : fs[i].parent = 0 /\ fs[i].name = Str_git
    /\ \E i \in 1..Len(fs) : fs[i].parent = 0 /\ fs[i].name = Str_node_modules
    /\ Len(NodesOf(root_node)) = 2
    /\ Len(markdown.block) = 2

(* The example of C7: proj/ holding a.txt (10 bytes) and b/, which holds  *)
(* c.txt (2048 bytes), rendered with includeSize and no other option.     *)
C7_Example ==
    /\ pc \in {"done", "viewed"}
    /\ rootName = Str_proj
    /\ fs = << [parent |-> 0, name |-> Str_a_txt, isDir |-> FALSE, size |-> 10],
               [parent |-> 0, name |-> Str_b, isDir |-> TRUE, size |-> 0],
               [parent |-> 2, name |-> Str_c_txt, isDir |-> FALSE, size |-> 2048] >>
    /\ NoFaults
    /\ opts.include_size /\ ~opts.only_dirs /\ opts.max_depth = NoDepth

C7_Block ==
    << <<FOLDER, SP, "p", "r", "o", "j", "/">>,
       <<TEE, DASH, DASH, SP, PAGE, SP, "a", ".", "t", "x", "t", SP,
         "(", "1", "0", ".", "0", "0", SP, "B", ")">>,
       <<ELL, DASH, DASH, SP, FOLDER, SP, "b">>,
       <<SP, SP, SP, SP, ELL, DASH, DASH, SP, PAGE, SP, "c", ".", "t", "x", "t", SP,
         "(", "2", ".", "0", "0", SP, "K", "B", ")">> >>

(* C7 as stated: the block lists a.txt (10.00 B) and b/ holding           *)
(* c.txt (2.00 KB), and the summary reports 1 directory, 2 files and a    *)
(* total of 2.05 KB.                                                      *)
C7_ExampleAsStated ==
    C7_Example =>
        /\ markdown.kind = "tree"
        /\ markdown.block = C7_Block
        /\ markdown.summary =
             << [label |-> "dirs", value |-> <<"1">>],
                [label |-> "files", value |-> <<"2">>],
                [label |-> "total", value |-> <<"2", ".", "0", "5", SP, "K", "B">>] >>

(* C7 amended: the block is as stated, and the summary reports 2          *)
(* directories (the root is counted), 2 files and a total of 2.01 KB      *)
(* (2058 bytes / 1024).                                                   *)
C7_ExampleAmended ==
    C7_Example =>
        /\ markdown.kind = "tree"
        /\ markdown.block = C7_Block
        /\ markdown.summary =
             << [label |-> "dirs", value |-> <<"2">>],
                [label |-> "files", value |-> <<"2">>],
                [label |-> "total", value |-> <<"2", ".", "0", "1", SP, "K", "B">>] >>

C7_Witness == C7_Example /\ pc = "done" /\ ~opts.include_all

RECURSIVE ExpectedHeads(_, _, _)
(* What C8 puts before the marker of each node below the root, in         *)
(* depth-first order: four characters per ancestor below the root, then   *)
(* the connector.                                                         *)
ExpectedHeads(children, i, ancestry) ==
    IF i > Len(children) THEN <<>>
    ELSE LET last == (i = Len(children)) IN
         << ancestry \o (IF last THEN <<ELL, DASH, DASH, SP>>
                         ELSE <<TEE, DASH, DASH, SP>>) >>
         \o ExpectedHeads(children[i].children, 1,
                          ancestry \o (IF last THEN <<SP, SP, SP, SP>>
                                       ELSE <<BAR, SP, SP, SP>>))
         \o ExpectedHeads(children, i + 1, ancestry)

(* C8 as stated: the root line is first and unprefixed, and every node    *)
(* below the root, whatever its name, has exactly one line, in            *)
(* depth-first order, made of its ancestry prefix, its connector, its     *)
(* marker and its name.                                                   *)
C8_OneLinePerNode ==
    (pc \in {"done", "viewed"} /\ markdown.kind = "tree") =>
        LET ns == NodesOf(root_node)
            heads == ExpectedHeads(root_node.children, 1, <<>>)
            block == markdown.block
        IN /\ block[1] = <<FOLDER, SP>> \o rootName \o <<"/">>
           /\ Len(block) = Len(ns)
           /\ \A k \in 2..Len(block) : k <= Len(ns) =>
                StartsWith(block[k],
                           heads[k - 1]
                           \o <<IF ns[k].is_dir THEN FOLDER ELSE PAGE, SP>>
                           \o ns[k].name)

(* No node below the root carries the root's name (such a node gets no    *)
(* line from tree_to_lines, see C8).                                      *)
RootNameUnique ==
    LET ns == NodesOf(root_node) IN \A k \in 2..Len(ns) : ns[k].name # rootName

(* C2 as stated, for trees whose every node is rendered: the tree the     *)
(* viewer rebuilds from the rendered block has the names, kinds, nesting  *)
(* and sibling order of the tree that was rendered.                       *)
C2_RoundTrip ==
    (pc = "viewed" /\ markdown.kind = "tree" /\ RootNameUnique) =>
        /\ viewer.status = "shown"
        /\ Shape(viewer.tree) = Shape(root_node)

(* C10 as stated: a run with the viewer flag ends with the viewer script  *)
(* at a path other than the document's, and the document still holding    *)
(* the Markdown written earlier in the run.                               *)
C10_TwoArtifacts ==
    (pc \in {"done", "viewed"} /\ args.generate_gui) =>
        /\ ScriptName(args.output_name) # args.output_name
        /\ files[ScriptName(args.output_name)] = GuiCode(args.output_name)
        /\ files[args.output_name] = markdown

====
